---- MODULE Spec2Model ----
(***************************************************************************)
(* CDC consumer of p04-zero-downtime-db-migration (consumer.py).           *)
(*                                                                         *)
(* The model follows run(): poll -> ensure_connection -> per message       *)
(* (is_offset_processed, process_event, update_committed_offset) ->        *)
(* conn.commit() -> consumer.commit(), with the two except handlers.       *)
(* The target store is a PostgreSQL database in READ COMMITTED mode: a     *)
(* transaction is an overlay of uncommitted writes over the durable state, *)
(* every statement reads the durable state plus the own overlay, and a     *)
(* write waits while another transaction holds the row.  The source is a   *)
(* Kafka consumer group with enable_auto_commit=False: poll() advances the *)
(* in-memory fetch position, commit() stores the positions as the group's  *)
(* committed offsets, and a restart or a reassignment resumes from those.  *)
(***************************************************************************)
EXTENDS Integers, Sequences, FiniteSets, TLC

\* ------------------------------------------------------------------ bounds
MaxLog == 3          \* events the source holds, over all partitions
MaxShared == 2       \* the same, when two instances run or the peers are unreliable

MaxOffset == 3       \* highest offset in the calls of the watermark store taken alone

\* --------------------------------------------------------------- constants
BATCH_SIZE == 100    \* max_poll_records
MAX_RETRIES == 5     \* attempts of a connect loop
RETRY_BACKOFF_BASE == 2   \* the default of the environment variable
MaxBase == 3              \* the largest configured base
BackoffBases == 1..MaxBase

Insts == {1, 2}      \* engine instances (consumer-group members)
Parts == {0, 1}      \* partitions of the topic cdc.public.users
Vals  == {"a", "b"}  \* values of the non-key column
NoRow == "absent"    \* the table holds no row with this id

KeyOf(p) == p + 1    \* the source partitions by key: partition p carries row id p + 1
Keys == {KeyOf(p) : p \in Parts}

\* A change event (message.value).  op "null" is a payload without op,
\* op "x" an unrecognised code, op "novalue" a record whose value is None,
\* op "garbage" a record whose bytes json.loads rejects.
\* img is the shape of the image the operation reads (after for c/r/u,
\* before for d): "full" (id and columns), "idonly", "nokey", "empty".
Ev(op, img, id, val) == [op |-> op, img |-> img, id |-> id, val |-> val]

\* create, update, delete, and an update that carries only the key (its
\* statement is rejected by the store); the second partition carries fewer shapes
CoreEvents(p) ==
    IF p = 0
    THEN { Ev("c", "full", KeyOf(p), "a"),
           Ev("u", "full", KeyOf(p), "b"),
           Ev("d", "full", KeyOf(p), "a"),
           Ev("u", "idonly", KeyOf(p), "a") }
    ELSE { Ev("c", "full", KeyOf(p), "a"),
           Ev("u", "idonly", KeyOf(p), "a") }

\* tombstones (payload without op, record without value) among creates and deletes
TombstoneEvents(p) ==
    IF p = 0
    THEN { Ev("c", "full", KeyOf(p), "a"),
           Ev("d", "full", KeyOf(p), "a"),
           Ev("null", "empty", KeyOf(p), "a"),
           Ev("novalue", "empty", KeyOf(p), "a") }
    ELSE { Ev("null", "empty", KeyOf(p), "a") }

\* one partition that two instances compete for
SharedEvents(p) ==
    IF p = 0
    THEN { Ev("c", "full", KeyOf(p), "a"),
           Ev("u", "full", KeyOf(p), "b") }
    ELSE {}

\* a delete whose before image has columns but no id, among creates and deletes
KeylessEvents(p) ==
    IF p = 0
    THEN { Ev("c", "full", KeyOf(p), "a"),
           Ev("d", "full", KeyOf(p), "a"),
           Ev("d", "nokey", KeyOf(p), "a") }
    ELSE { Ev("d", "nokey", KeyOf(p), "a") }

\* events that carry nothing to write: an unrecognised operation code, an
\* update without after image, a delete without key, a payload without op
OddEvents(p) ==
    IF p = 0
    THEN { Ev("c", "full", KeyOf(p), "a"),
           Ev("x", "full", KeyOf(p), "b"),
           Ev("u", "empty", KeyOf(p), "b"),
           Ev("d", "nokey", KeyOf(p), "a") }
    ELSE { Ev("null", "empty", KeyOf(p), "a") }

\* a create and an update that the store rejects, for the runs that end by a signal
StopEvents(p) ==
    IF p = 0
    THEN { Ev("c", "full", KeyOf(p), "a"),
           Ev("u", "idonly", KeyOf(p), "a") }
    ELSE { Ev("c", "full", KeyOf(p), "a") }

\* what an unreliable network and an unreliable producer deliver
UnreliableEvents(p) ==
    IF p = 0
    THEN { Ev("c", "full", KeyOf(p), "a"),
           Ev("garbage", "empty", KeyOf(p), "a") }
    ELSE { Ev("c", "full", KeyOf(p), "b") }

VARIABLES
    kinds,      \* which event shapes the producer writes (fixed by Init)
    retry_backoff_base, \* the value the process read from RETRY_BACKOFF_BASE (fixed by Init)
    log,        \* source: log[p] is the sequence of events of partition p (offset = index - 1)
    acked,      \* source: committed group offset of p (next offset to deliver)
    owner,      \* source: the instance partition p is assigned to
    rows,       \* store, durable: rows[id] of table users
    wm,         \* store, durable: _cdc_offsets, partition -> committed_offset (no row: not in DOMAIN)
    applied,    \* history: <<p, o>> whose process_event ran in a committed transaction
    pc,         \* per instance: position in run()
    position,   \* per instance: consumer fetch position per partition
    records,    \* per instance: the polled batch, partition -> <<first, last + 1>>
    cur,        \* per instance: <<p, o>> the message the loops are at
    todo,       \* per instance: partitions of the batch not yet visited
    tx,         \* per instance: uncommitted writes of the open transaction
    conn,       \* per instance: the store handle run() holds: "none" (None), "live",
                \* "broken" (open, its server side is gone), "closed"
    snap,       \* history: durable state when the batch was polled
    retry,      \* history: the batch whose transaction was rolled back last
    shutdown,   \* per instance: shutdown_requested
    consumer,   \* per instance: the source handle: "none", "open", "closed"
    attempts    \* history, per instance: the last connect loop (what, avail, made, ok, slept)
                \* what: "kafka", "db" (no handle was held), "stale" (the probe failed)

configVars == <<kinds, retry_backoff_base>>
sourceVars == <<configVars, log, acked, owner>>
storeVars  == <<rows, wm, applied>>
engineVars == <<pc, position, records, cur, todo, tx, conn, snap, retry>>
procVars   == <<shutdown, consumer, attempts>>
vars == <<kinds, retry_backoff_base, log, acked, owner, rows, wm, applied,
          pc, position, records, cur, todo, tx, conn, snap, retry,
          shutdown, consumer, attempts>>

\* ---------------------------------------------------------------- helpers
EmptyFn == [x \in {} |-> 0]
EmptyTx == [rows |-> EmptyFn, wm |-> EmptyFn, applied |-> {}]
NoRecords == [p \in Parts |-> <<0, 0>>]
NoCur == <<0, 0>>
NoSnap == [rows |-> EmptyFn, wm |-> EmptyFn]

RECURSIVE SumOver(_, _)
SumOver(f, S) ==
    IF S = {} THEN 0
    ELSE LET x == CHOOSE y \in S : TRUE IN f[x] + SumOver(f, S \ {x})

Put(f, k, v) == [x \in (DOMAIN f) \cup {k} |-> IF x = k THEN v ELSE f[x]]
Overlay(base, over) ==
    [x \in (DOMAIN base) \cup (DOMAIN over) |->
        IF x \in DOMAIN over THEN over[x] ELSE base[x]]

NonEmpty(recs) == {p \in Parts : recs[p][1] < recs[p][2]}

\* what a statement of instance i reads
ViewRows(i) == Overlay(rows, tx[i].rows)
ViewWm(i)   == Overlay(wm, tx[i].wm)

\* row locks held by the other transactions
RowLocked(i, k) == \E j \in Insts \ {i} : k \in DOMAIN tx[j].rows
WmLocked(i, p)  == \E j \in Insts \ {i} : p \in DOMAIN tx[j].wm

\* ------------------------------------------------- watermark store (pure)
\* the guard without the stored row: nothing is ever taken as processed
is_offset_processed_never(view, p, offset) == FALSE

\* the guard with the comparison off by one: offset < row[0]
is_offset_processed_strict(view, p, offset) ==
    IF p \notin DOMAIN view THEN FALSE ELSE offset < view[p]

\* SELECT committed_offset ...; row is None -> False; else offset <= row[0]
is_offset_processed(view, p, offset) ==
    IF p \notin DOMAIN view THEN FALSE ELSE offset <= view[p]

\* the upsert left out: the watermark row is never written
update_committed_offset_lost(txwm, p, offset) == txwm

\* the transaction writes the row of a partition once: its later upserts do nothing
update_committed_offset_first_wins(txwm, p, offset) ==
    IF p \in DOMAIN txwm THEN txwm ELSE Put(txwm, p, offset)

\* INSERT ... ON CONFLICT (topic, partition_id) DO UPDATE SET committed_offset = EXCLUDED...
update_committed_offset(txwm, p, offset) == Put(txwm, p, offset)

\* ------------------------------------------------- mutation applier (pure)
\* outcome of a call: raised or not, the overlay after it, the rows its statement locked
Returned(txrows, locked) == [raised |-> FALSE, rows |-> txrows, locked |-> locked]
Raised(txrows)           == [raised |-> TRUE, rows |-> txrows, locked |-> {}]

\* an upsert without after image is refused: raise instead of return
apply_create_or_update_empty_raises(view, txrows, ev) ==
    IF ev.img = "empty" THEN Raised(txrows)
    ELSE IF ev.img = "idonly" THEN Raised(txrows)
    ELSE IF ev.img = "nokey" THEN Raised(txrows)
    ELSE Returned(Put(txrows, ev.id, ev.val), {ev.id})

apply_create_or_update(view, txrows, ev) ==
    IF ev.img = "empty" THEN Returned(txrows, {})        \* not after: return
    ELSE IF ev.img = "idonly" THEN Raised(txrows)        \* "DO UPDATE SET " with no column: syntax error
    ELSE IF ev.img = "nokey" THEN Raised(txrows)         \* INSERT without the primary key
    ELSE Returned(Put(txrows, ev.id, ev.val), {ev.id})   \* insert, or overwrite on conflict

apply_delete(view, txrows, ev) ==
    IF ev.img = "empty" THEN Returned(txrows, {})        \* not before: return
    ELSE IF ev.img = "nokey" THEN Returned(txrows, {})   \* row_id is None: logged, return
    ELSE IF view[ev.id] = NoRow THEN Returned(txrows, {}) \* DELETE matches no row
    ELSE Returned(Put(txrows, ev.id, NoRow), {ev.id})

\* an operation code that is not known is refused: raise ValueError
process_event_unknown_raises(view, txrows, ev) ==
    IF ev.op = "novalue" THEN Returned(txrows, {})
    ELSE IF ev.op \in {"c", "r", "u"} THEN apply_create_or_update(view, txrows, ev)
    ELSE IF ev.op = "d" THEN apply_delete(view, txrows, ev)
    ELSE IF ev.op = "null" THEN Returned(txrows, {})
    ELSE Raised(txrows)

\* payload["op"] instead of payload.get("op"): a payload without op raises
process_event_op_required(view, txrows, ev) ==
    IF ev.op = "novalue" THEN Returned(txrows, {})
    ELSE IF ev.op = "null" THEN Raised(txrows)
    ELSE IF ev.op \in {"c", "r", "u"} THEN apply_create_or_update(view, txrows, ev)
    ELSE IF ev.op = "d" THEN apply_delete(view, txrows, ev)
    ELSE Returned(txrows, {})

process_event(view, txrows, ev) ==
    IF ev.op = "novalue" THEN Returned(txrows, {})       \* event is None
    ELSE IF ev.op \in {"c", "r"} THEN apply_create_or_update(view, txrows, ev)
    ELSE IF ev.op = "u" THEN apply_create_or_update(view, txrows, ev)
    ELSE IF ev.op = "d" THEN apply_delete(view, txrows, ev)
    ELSE IF ev.op = "null" THEN Returned(txrows, {})     \* tombstone: skip silently
    ELSE Returned(txrows, {})                            \* unknown operation: warning

\* ----------------------------------------------- connection manager (pure)
RECURSIVE Pow(_, _)
Pow(b, n) == IF n = 0 THEN 1 ELSE b * Pow(b, n - 1)

\* numbers a connect attempt can carry; avail is the set of those at which
\* the server accepts the connection
AttemptNumbers == 1..(MAX_RETRIES + 1)

\* how a connect loop ends: with a handle after `made` attempts, or in sys.exit(1)
Connected(made, slept) == [ok |-> TRUE, made |-> made, slept |-> slept]
Exhausted(made, slept) == [ok |-> FALSE, made |-> made, slept |-> slept]

\* range(1, MAX_RETRIES + 2): one attempt more than configured
RECURSIVE connect_target_db_more_from(_, _, _)
connect_target_db_more_from(avail, attempt, slept) ==
    IF attempt > MAX_RETRIES + 1 THEN Exhausted(attempt - 1, slept)
    ELSE IF attempt \in avail THEN Connected(attempt, slept)
    ELSE connect_target_db_more_from(avail, attempt + 1,
                                     Append(slept, Pow(retry_backoff_base, attempt)))
connect_target_db_more(avail) == connect_target_db_more_from(avail, 1, <<>>)

\* wait = RETRY_BACKOFF_BASE * 2 ** attempt: the base scales a doubling wait
RECURSIVE connect_target_db_doubling_from(_, _, _)
connect_target_db_doubling_from(avail, attempt, slept) ==
    IF attempt > MAX_RETRIES THEN Exhausted(attempt - 1, slept)
    ELSE IF attempt \in avail THEN Connected(attempt, slept)
    ELSE connect_target_db_doubling_from(avail, attempt + 1,
                                         Append(slept, retry_backoff_base * Pow(2, attempt)))
connect_target_db_doubling(avail) == connect_target_db_doubling_from(avail, 1, <<>>)

\* for attempt in range(1, MAX_RETRIES + 1): psycopg2.connect(...) -> return conn;
\* except OperationalError: wait = RETRY_BACKOFF_BASE ** attempt; time.sleep(wait)
RECURSIVE connect_target_db_from(_, _, _)
connect_target_db_from(avail, attempt, slept) ==
    IF attempt > MAX_RETRIES THEN Exhausted(attempt - 1, slept)
    ELSE IF attempt \in avail THEN Connected(attempt, slept)
    ELSE connect_target_db_from(avail, attempt + 1,
                                Append(slept, Pow(retry_backoff_base, attempt)))
connect_target_db(avail) == connect_target_db_from(avail, 1, <<>>)

\* for attempt in range(1, MAX_RETRIES + 1): KafkaConsumer(...); subscribe -> return consumer;
\* except NoBrokersAvailable: wait = RETRY_BACKOFF_BASE ** attempt; time.sleep(wait)
RECURSIVE create_kafka_consumer_from(_, _, _)
create_kafka_consumer_from(avail, attempt, slept) ==
    IF attempt > MAX_RETRIES THEN Exhausted(attempt - 1, slept)
    ELSE IF attempt \in avail THEN Connected(attempt, slept)
    ELSE create_kafka_consumer_from(avail, attempt + 1,
                                    Append(slept, Pow(retry_backoff_base, attempt)))
create_kafka_consumer(avail) == create_kafka_consumer_from(avail, 1, <<>>)

\* what the last connect loop of an instance was given and how it ended
Attempt(what, avail, r) ==
    [what |-> what, avail |-> avail, made |-> r.made, ok |-> r.ok, slept |-> r.slept]
FirstTry == Attempt("db", AttemptNumbers, connect_target_db(AttemptNumbers))
NoAttempt == Attempt("none", {}, Connected(0, <<>>))

\* ------------------------------------------------------------------ Init
InitCommon ==
    /\ log = [p \in Parts |-> <<>>]
    /\ acked = [p \in Parts |-> 0]
    /\ rows = [k \in Keys |-> NoRow]
    /\ wm = EmptyFn
    /\ applied = {}
    /\ position = [i \in Insts |-> [p \in Parts |-> 0]]
    /\ records = [i \in Insts |-> NoRecords]
    /\ cur = [i \in Insts |-> NoCur]
    /\ todo = [i \in Insts |-> {}]
    /\ tx = [i \in Insts |-> EmptyTx]
    /\ snap = [i \in Insts |-> NoSnap]
    /\ retry = [i \in Insts |-> NoRecords]
    /\ shutdown = [i \in Insts |-> FALSE]

\* the state after consumer = create_kafka_consumer() and conn = connect_target_db()
\* of the instances in I
Started(I) ==
    /\ pc = [i \in Insts |-> IF i \in I THEN "poll" ELSE "off"]
    /\ conn = [i \in Insts |-> IF i \in I THEN "live" ELSE "none"]
    /\ consumer = [i \in Insts |-> IF i \in I THEN "open" ELSE "none"]
    /\ attempts = [i \in Insts |-> IF i \in I THEN FirstTry ELSE NoAttempt]

\* one engine instance owns every partition; the second process does not exist
Init ==
    /\ InitCommon
    /\ kinds = "core"
    /\ retry_backoff_base = RETRY_BACKOFF_BASE
    /\ owner = [p \in Parts |-> 1]
    /\ Started({1})

\* one engine instance; the source carries tombstones
InitTomb ==
    /\ InitCommon
    /\ kinds = "tomb"
    /\ retry_backoff_base = RETRY_BACKOFF_BASE
    /\ owner = [p \in Parts |-> 1]
    /\ Started({1})

\* two engine instances of one consumer group share the store
InitMulti ==
    /\ InitCommon
    /\ kinds = "shared"
    /\ retry_backoff_base = RETRY_BACKOFF_BASE
    /\ owner \in [Parts -> Insts]
    /\ Started(Insts)

\* one engine instance; the source carries deletes without a key
InitKeyless ==
    /\ InitCommon
    /\ kinds = "keyless"
    /\ retry_backoff_base = RETRY_BACKOFF_BASE
    /\ owner = [p \in Parts |-> 1]
    /\ Started({1})

\* one engine instance; the source carries events with nothing to write
InitOdd ==
    /\ InitCommon
    /\ kinds = "odd"
    /\ retry_backoff_base = RETRY_BACKOFF_BASE
    /\ owner = [p \in Parts |-> 1]
    /\ Started({1})

\* one engine instance that termination signals reach
InitStop ==
    /\ InitCommon
    /\ kinds = "stop"
    /\ retry_backoff_base = RETRY_BACKOFF_BASE
    /\ owner = [p \in Parts |-> 1]
    /\ Started({1})

\* one engine instance; broker, store and payloads are unreliable
InitUnreliable ==
    /\ InitCommon
    /\ kinds = "unreliable"
    /\ retry_backoff_base = RETRY_BACKOFF_BASE
    /\ owner = [p \in Parts |-> 1]
    /\ Started({1})

\* one engine instance at the first line of run(), before the handles exist
InitStart ==
    /\ InitCommon
    /\ kinds = "unreliable"
    /\ retry_backoff_base \in BackoffBases
    /\ owner = [p \in Parts |-> 1]
    /\ pc = [i \in Insts |-> IF i = 1 THEN "start" ELSE "off"]
    /\ conn = [i \in Insts |-> "none"]
    /\ consumer = [i \in Insts |-> "none"]
    /\ attempts = [i \in Insts |-> NoAttempt]

\* the watermark store taken alone: _cdc_offsets holds any rows, a cursor is
\* open on a live handle, no batch is in work
InitWatermark ==
    /\ log = [p \in Parts |-> <<>>]
    /\ acked = [p \in Parts |-> 0]
    /\ rows = [k \in Keys |-> NoRow]
    /\ \E S \in SUBSET Parts : wm \in [S -> 0..MaxOffset]
    /\ applied = {}
    /\ position = [i \in Insts |-> [p \in Parts |-> 0]]
    /\ records = [i \in Insts |-> NoRecords]
    /\ cur = [i \in Insts |-> NoCur]
    /\ todo = [i \in Insts |-> {}]
    /\ tx = [i \in Insts |-> EmptyTx]
    /\ snap = [i \in Insts |-> NoSnap]
    /\ retry = [i \in Insts |-> NoRecords]
    /\ shutdown = [i \in Insts |-> FALSE]
    /\ kinds = "none"
    /\ retry_backoff_base = RETRY_BACKOFF_BASE
    /\ owner = [p \in Parts |-> 1]
    /\ pc = [i \in Insts |-> IF i = 1 THEN "call" ELSE "off"]
    /\ conn = [i \in Insts |-> IF i = 1 THEN "live" ELSE "none"]
    /\ consumer = [i \in Insts |-> IF i = 1 THEN "open" ELSE "none"]
    /\ attempts = [i \in Insts |-> IF i = 1 THEN FirstTry ELSE NoAttempt]

EventsOf(p) ==
    IF kinds = "core" THEN CoreEvents(p)
    ELSE IF kinds = "shared" THEN SharedEvents(p)
    ELSE IF kinds = "keyless" THEN KeylessEvents(p)
    ELSE IF kinds = "unreliable" THEN UnreliableEvents(p)
    ELSE IF kinds = "stop" THEN StopEvents(p)
    ELSE IF kinds = "odd" THEN OddEvents(p)
    ELSE TombstoneEvents(p)

\* broker and store can refuse connections, drop them and fail requests
Unreliable == kinds = "unreliable"
AvailChoices == IF Unreliable THEN SUBSET AttemptNumbers ELSE {AttemptNumbers}

\* --------------------------------------------------------------- source
\* the upstream connector appends a change event to partition p
Produce(p) ==
    /\ SumOver([q \in Parts |-> Len(log[q])], Parts) <
          (IF kinds \in {"shared", "unreliable"} THEN MaxShared ELSE MaxLog)
    /\ \E ev \in EventsOf(p) : log' = [log EXCEPT ![p] = Append(@, ev)]
    /\ UNCHANGED <<configVars, acked, owner, rows, wm, applied>>
    /\ UNCHANGED engineVars
    /\ UNCHANGED procVars

\* ------------------------------------------------------------ the engine
\* what ensure_connection hands back: the handle, why it is this one ("probe":
\* SELECT 1 returned; "db": there was none; "stale": SELECT 1 raised), and the
\* connect loop that made it (ok = FALSE: the loop ended in sys.exit(1))
Kept(c) == [ok |-> TRUE, conn |-> c, why |-> "probe", loop |-> Connected(0, <<>>)]
Reconnected(old, why, r) ==
    [ok |-> r.ok, conn |-> IF r.ok THEN "live" ELSE old, why |-> why, loop |-> r]

\* the handle is used as it is, without the probe
ensure_connection_unchecked(c, avail) == Kept(c)

\* conn is None or conn.closed -> connect_target_db(); SELECT 1 returns -> conn;
\* SELECT 1 raises -> conn.close(); connect_target_db()
ensure_connection(c, avail) ==
    IF c \in {"none", "closed"} THEN Reconnected(c, "db", connect_target_db(avail))
    ELSE IF c = "live" THEN Kept(c)
    ELSE Reconnected("closed", "stale", connect_target_db(avail))

\* if batch_count == 0: continue -- a batch that wrote nothing is neither
\* committed nor acknowledged
Advance_skip_empty_commit(i) ==
    LET p == cur[i][1]
        o == cur[i][2]
    IN  IF o + 1 < records[i][p][2]
        THEN /\ cur' = [cur EXCEPT ![i] = <<p, o + 1>>]
             /\ pc' = [pc EXCEPT ![i] = "guard"]
             /\ UNCHANGED todo
        ELSE IF todo[i] # {}
        THEN \E q \in todo[i] :
                /\ cur' = [cur EXCEPT ![i] = <<q, records[i][q][1]>>]
                /\ todo' = [todo EXCEPT ![i] = @ \ {q}]
                /\ pc' = [pc EXCEPT ![i] = "guard"]
        ELSE /\ cur' = [cur EXCEPT ![i] = NoCur]
             /\ pc' = [pc EXCEPT ![i] = IF tx[i].applied = {} /\ pc[i] = "guard"
                                        THEN "poll" ELSE "commit"]
             /\ UNCHANGED todo

\* break after the messages of the first partition: the other partitions of
\* the batch are left out of the transaction
Advance_first_partition_only(i) ==
    LET p == cur[i][1]
        o == cur[i][2]
    IN  IF o + 1 < records[i][p][2]
        THEN /\ cur' = [cur EXCEPT ![i] = <<p, o + 1>>]
             /\ pc' = [pc EXCEPT ![i] = "guard"]
             /\ UNCHANGED todo
        ELSE /\ cur' = [cur EXCEPT ![i] = NoCur]
             /\ pc' = [pc EXCEPT ![i] = "commit"]
             /\ UNCHANGED todo

\* the loops over records.items() and messages move to the next message,
\* or leave the loops for conn.commit()
Advance(i) ==
    LET p == cur[i][1]
        o == cur[i][2]
    IN  IF o + 1 < records[i][p][2]
        THEN /\ cur' = [cur EXCEPT ![i] = <<p, o + 1>>]
             /\ pc' = [pc EXCEPT ![i] = "guard"]
             /\ UNCHANGED todo
        ELSE IF todo[i] # {}
        THEN \E q \in todo[i] :
                /\ cur' = [cur EXCEPT ![i] = <<q, records[i][q][1]>>]
                /\ todo' = [todo EXCEPT ![i] = @ \ {q}]
                /\ pc' = [pc EXCEPT ![i] = "guard"]
        ELSE /\ cur' = [cur EXCEPT ![i] = NoCur]
             /\ pc' = [pc EXCEPT ![i] = "commit"]
             /\ UNCHANGED todo

\* finally without consumer.close()
Finally_keep_open(i, how) ==
    /\ UNCHANGED consumer
    /\ conn' = [conn EXCEPT ![i] = IF @ \in {"live", "broken"} THEN "closed" ELSE @]
    /\ tx' = [tx EXCEPT ![i] = EmptyTx]
    /\ records' = [records EXCEPT ![i] = NoRecords]
    /\ cur' = [cur EXCEPT ![i] = NoCur]
    /\ todo' = [todo EXCEPT ![i] = {}]
    /\ pc' = [pc EXCEPT ![i] = how]

\* run() is left through finally: consumer.close(); if conn and not conn.closed:
\* conn.close().  how is "stopped" (the loop ended, exit status 0), "fatal"
\* (sys.exit(1)) or "died" (an exception nothing catches, exit status 1)
Finally(i, how) ==
    /\ consumer' = [consumer EXCEPT ![i] = "closed"]
    /\ conn' = [conn EXCEPT ![i] = IF @ \in {"live", "broken"} THEN "closed" ELSE @]
    /\ tx' = [tx EXCEPT ![i] = EmptyTx]
    /\ records' = [records EXCEPT ![i] = NoRecords]
    /\ cur' = [cur EXCEPT ![i] = NoCur]
    /\ todo' = [todo EXCEPT ![i] = {}]
    /\ pc' = [pc EXCEPT ![i] = how]

\* json.loads, called by poll() as value_deserializer, rejects a record of the batch
\* the health check runs before the emptiness test: a missing or stale
\* handle is replaced in a cycle that received nothing
EmptyCycle_reconnects(i) ==
    /\ conn' = [conn EXCEPT ![i] = ensure_connection(@, AttemptNumbers).conn]
    /\ UNCHANGED <<pc, position, records, cur, todo, tx, snap, retry>>
    /\ UNCHANGED procVars

\* if not records: continue
EmptyCycle(i) ==
    /\ UNCHANGED engineVars
    /\ UNCHANGED procVars

Unparsable(recs) ==
    \E p \in NonEmpty(recs) : \E o \in recs[p][1]..(recs[p][2] - 1) : log[p][o + 1].op = "garbage"

\* while not shutdown_requested: records = consumer.poll(...); if not records: continue;
\* conn = ensure_connection(conn); with conn.cursor() as cur: first message.
\* An exception out of poll() and the SystemExit of an exhausted connect loop
\* are caught by no handler of run() and leave it through finally.
Poll(i) ==
    /\ pc[i] = "poll"
    /\ ~shutdown[i]
    /\ \/ /\ Unreliable
          /\ Finally(i, "died")
          /\ UNCHANGED <<position, snap, retry, shutdown, attempts>>
       \/ \E cnt \in [Parts -> 0..MaxLog] :
            /\ \A p \in Parts : cnt[p] <= (IF owner[p] = i THEN Len(log[p]) - position[i][p] ELSE 0)
            /\ SumOver(cnt, Parts) <= BATCH_SIZE
            /\ LET recs == [p \in Parts |-> <<position[i][p], position[i][p] + cnt[p]>>]
               IN  IF Unparsable(recs)
                   THEN /\ Finally(i, "died")
                        /\ UNCHANGED <<position, snap, retry, shutdown, attempts>>
                   ELSE IF NonEmpty(recs) = {}
                   THEN EmptyCycle(i)
                   ELSE \E avail \in AvailChoices :
                        LET e == ensure_connection(conn[i], avail)
                        IN  /\ position' = [position EXCEPT ![i] = [p \in Parts |-> recs[p][2]]]
                            /\ attempts' = IF e.why = "probe"
                                           THEN attempts
                                           ELSE [attempts EXCEPT ![i] = Attempt(e.why, avail, e.loop)]
                            /\ UNCHANGED shutdown
                            /\ IF e.ok
                               THEN /\ records' = [records EXCEPT ![i] = recs]
                                    /\ conn' = [conn EXCEPT ![i] = e.conn]
                                    /\ snap' = [snap EXCEPT ![i] = [rows |-> rows, wm |-> wm]]
                                    /\ retry' = [retry EXCEPT ![i] = NoRecords]
                                    /\ pc' = [pc EXCEPT ![i] = "guard"]
                                    /\ \E q \in NonEmpty(recs) :
                                         /\ cur' = [cur EXCEPT ![i] = <<q, recs[q][1]>>]
                                         /\ todo' = [todo EXCEPT ![i] = NonEmpty(recs) \ {q}]
                                    /\ UNCHANGED <<tx, consumer>>
                               ELSE /\ Finally(i, "fatal")
                                    /\ UNCHANGED <<snap, retry>>
    /\ UNCHANGED sourceVars
    /\ UNCHANGED storeVars

\* except Exception (inner): conn.rollback(); raise
\* except Exception (outer): conn.rollback(); conn = None; time.sleep(1)
BatchFailed(i) ==
    /\ tx' = [tx EXCEPT ![i] = EmptyTx]
    /\ conn' = [conn EXCEPT ![i] = "none"]
    /\ retry' = [retry EXCEPT ![i] = records[i]]
    /\ UNCHANGED snap
    /\ records' = [records EXCEPT ![i] = NoRecords]
    /\ cur' = [cur EXCEPT ![i] = NoCur]
    /\ todo' = [todo EXCEPT ![i] = {}]
    /\ pc' = [pc EXCEPT ![i] = "poll"]

\* if is_offset_processed(cur, topic, partition, message.offset): continue;
\* the SELECT raises on a handle that is not live
Guard(i) ==
    /\ pc[i] = "guard"
    /\ IF conn[i] # "live"
       THEN /\ BatchFailed(i)
            /\ UNCHANGED position
       ELSE /\ IF is_offset_processed(ViewWm(i), cur[i][1], cur[i][2])
               THEN Advance(i)
               ELSE /\ pc' = [pc EXCEPT ![i] = "apply"]
                    /\ UNCHANGED <<cur, todo>>
            /\ UNCHANGED <<position, records, tx, conn, snap, retry>>
    /\ UNCHANGED sourceVars
    /\ UNCHANGED storeVars
    /\ UNCHANGED procVars

\* the inner handler as its comment words it ("skip this event"): the error
\* is counted, the loop goes on with the next message and the batch commits
Apply_skip_failed(i) ==
    /\ pc[i] = "apply"
    /\ LET p == cur[i][1]
           o == cur[i][2]
           ev == log[p][o + 1]
           r == process_event(ViewRows(i), tx[i].rows, ev)
       IN  IF r.raised
           THEN /\ retry' = [retry EXCEPT ![i] = records[i]]
                /\ Advance(i)
                /\ UNCHANGED <<tx, records, conn, snap>>
           ELSE /\ \A k \in r.locked : ~RowLocked(i, k)
                /\ ~WmLocked(i, p)
                /\ tx' = [tx EXCEPT ![i] =
                            [rows |-> r.rows,
                             wm |-> update_committed_offset(@.wm, p, o),
                             applied |-> @.applied \cup {<<p, o>>}]]
                /\ Advance(i)
                /\ UNCHANGED <<records, conn, retry, snap>>
    /\ UNCHANGED position
    /\ UNCHANGED sourceVars
    /\ UNCHANGED storeVars
    /\ UNCHANGED procVars

\* process_event(cur, topic, message.value); update_committed_offset(cur, topic, partition, message.offset);
\* either raises when the event is rejected or the handle is not live
Apply(i) ==
    /\ pc[i] = "apply"
    /\ LET p == cur[i][1]
           o == cur[i][2]
           ev == log[p][o + 1]
           r == process_event(ViewRows(i), tx[i].rows, ev)
       IN  IF r.raised \/ conn[i] # "live"
           THEN BatchFailed(i)
           ELSE /\ \A k \in r.locked : ~RowLocked(i, k)
                /\ ~WmLocked(i, p)
                /\ tx' = [tx EXCEPT ![i] =
                            [rows |-> r.rows,
                             wm |-> update_committed_offset(@.wm, p, o),
                             applied |-> @.applied \cup {<<p, o>>}]]
                /\ Advance(i)
                /\ UNCHANGED <<records, conn, retry, snap>>
    /\ UNCHANGED position
    /\ UNCHANGED sourceVars
    /\ UNCHANGED storeVars
    /\ UNCHANGED procVars

\* a failure of conn.commit() swallowed: the cycle goes on to consumer.commit()
DbCommit_swallowed(i) ==
    /\ pc[i] = "commit"
    /\ \E ok \in BOOLEAN :
        IF ok /\ conn[i] = "live"
        THEN /\ rows' = Overlay(rows, tx[i].rows)
             /\ wm' = Overlay(wm, tx[i].wm)
             /\ applied' = applied \cup tx[i].applied
        ELSE UNCHANGED storeVars
    /\ tx' = [tx EXCEPT ![i] = EmptyTx]
    /\ pc' = [pc EXCEPT ![i] = "ack"]
    /\ UNCHANGED <<records, cur, todo, conn, retry, snap>>
    /\ UNCHANGED position
    /\ UNCHANGED sourceVars
    /\ UNCHANGED procVars

\* conn.commit(): the transaction becomes durable, or the commit raises
DbCommit(i) ==
    /\ pc[i] = "commit"
    /\ \E ok \in BOOLEAN :
        IF ok /\ conn[i] = "live"
        THEN /\ rows' = Overlay(rows, tx[i].rows)
             /\ wm' = Overlay(wm, tx[i].wm)
             /\ applied' = applied \cup tx[i].applied
             /\ tx' = [tx EXCEPT ![i] = EmptyTx]
             /\ pc' = [pc EXCEPT ![i] = "ack"]
             /\ UNCHANGED <<records, cur, todo, conn, retry, snap>>
        ELSE /\ BatchFailed(i)
             /\ UNCHANGED storeVars
    /\ UNCHANGED position
    /\ UNCHANGED sourceVars
    /\ UNCHANGED procVars

\* consumer.commit(): the positions of the assigned partitions become the
\* group's committed offsets; it raises when the broker rejects the commit
\* (a partition of the batch was reassigned) or cannot be reached
Ack(i) ==
    /\ pc[i] = "ack"
    /\ \E ok \in BOOLEAN :
        IF ok /\ \A p \in NonEmpty(records[i]) : owner[p] = i
        THEN /\ acked' = [p \in Parts |-> IF owner[p] = i THEN position[i][p] ELSE acked[p]]
             /\ UNCHANGED conn
        ELSE /\ conn' = [conn EXCEPT ![i] = "none"]
             /\ UNCHANGED acked
    /\ records' = [records EXCEPT ![i] = NoRecords]
    /\ pc' = [pc EXCEPT ![i] = "poll"]
    /\ UNCHANGED <<configVars, log, owner>>
    /\ snap' = [snap EXCEPT ![i] = NoSnap]
    /\ UNCHANGED <<position, cur, todo, tx, retry>>
    /\ UNCHANGED storeVars
    /\ UNCHANGED procVars

\* shutdown honoured at once, wherever run() stands
Stop_preemptive(i) ==
    /\ pc[i] \in {"poll", "guard", "apply", "commit", "ack"}
    /\ shutdown[i]
    /\ Finally(i, "stopped")
    /\ UNCHANGED <<position, snap, retry>>
    /\ UNCHANGED sourceVars
    /\ UNCHANGED storeVars
    /\ UNCHANGED <<shutdown, attempts>>

\* while not shutdown_requested is false: the loop ends, finally closes the
\* handles, run() returns
Stop(i) ==
    /\ pc[i] = "poll"
    /\ shutdown[i]
    /\ Finally(i, "stopped")
    /\ UNCHANGED <<position, snap, retry>>
    /\ UNCHANGED sourceVars
    /\ UNCHANGED storeVars
    /\ UNCHANGED <<shutdown, attempts>>

\* SIGTERM or SIGINT arrives: _signal_handler sets shutdown_requested
Signal(i) ==
    /\ pc[i] \in {"poll", "guard", "apply", "commit", "ack"}
    /\ ~shutdown[i]
    /\ shutdown' = [shutdown EXCEPT ![i] = TRUE]
    /\ UNCHANGED <<consumer, attempts>>
    /\ UNCHANGED engineVars
    /\ UNCHANGED sourceVars
    /\ UNCHANGED storeVars

\* the server side of the store connection goes away: the open transaction
\* is aborted there, the handle stays open in the process
ConnBreak(i) ==
    /\ pc[i] \in {"poll", "guard", "apply", "commit", "ack"}
    /\ conn[i] = "live"
    /\ conn' = [conn EXCEPT ![i] = "broken"]
    /\ tx' = [tx EXCEPT ![i] = EmptyTx]
    /\ UNCHANGED <<pc, position, records, cur, todo, snap, retry>>
    /\ UNCHANGED sourceVars
    /\ UNCHANGED storeVars
    /\ UNCHANGED procVars

\* consumer = create_kafka_consumer(), before the try of run()
StartKafka(i) ==
    /\ pc[i] = "start"
    /\ \E avail \in AvailChoices :
        LET r == create_kafka_consumer(avail)
        IN  /\ attempts' = [attempts EXCEPT ![i] = Attempt("kafka", avail, r)]
            /\ consumer' = [consumer EXCEPT ![i] = IF r.ok THEN "open" ELSE @]
            /\ pc' = [pc EXCEPT ![i] = IF r.ok THEN "startdb" ELSE "fatal"]
    /\ UNCHANGED <<position, records, cur, todo, tx, conn, snap, retry>>
    /\ UNCHANGED shutdown
    /\ UNCHANGED sourceVars
    /\ UNCHANGED storeVars

\* conn = connect_target_db(), before the try of run(): sys.exit(1) here
\* passes no finally
StartDb(i) ==
    /\ pc[i] = "startdb"
    /\ \E avail \in AvailChoices :
        LET r == connect_target_db(avail)
        IN  /\ attempts' = [attempts EXCEPT ![i] = Attempt("db", avail, r)]
            /\ conn' = [conn EXCEPT ![i] = IF r.ok THEN "live" ELSE @]
            /\ pc' = [pc EXCEPT ![i] = IF r.ok THEN "poll" ELSE "fatal"]
    /\ UNCHANGED <<position, records, cur, todo, tx, snap, retry>>
    /\ UNCHANGED <<shutdown, consumer>>
    /\ UNCHANGED sourceVars
    /\ UNCHANGED storeVars

\* update_committed_offset(cur, topic, p, o) called on the open cursor
CallUpdateCommittedOffset(i) ==
    /\ pc[i] = "call"
    /\ \E p \in Parts, o \in 0..MaxOffset :
        /\ tx' = [tx EXCEPT ![i].wm = update_committed_offset(@, p, o)]
        /\ cur' = [cur EXCEPT ![i] = <<p, o>>]
    /\ pc' = [pc EXCEPT ![i] = "called"]
    /\ UNCHANGED <<position, records, todo, conn, snap, retry>>
    /\ UNCHANGED sourceVars
    /\ UNCHANGED storeVars
    /\ UNCHANGED procVars

\* the process dies at any point and is started again: the store aborts the
\* open transaction, create_kafka_consumer() resumes from the committed
\* offsets, connect_target_db() returns a fresh handle
CrashRestart(i) ==
    /\ pc[i] # "off"
    /\ tx' = [tx EXCEPT ![i] = EmptyTx]
    /\ position' = [position EXCEPT ![i] = [p \in Parts |-> IF owner[p] = i THEN acked[p] ELSE 0]]
    /\ records' = [records EXCEPT ![i] = NoRecords]
    /\ cur' = [cur EXCEPT ![i] = NoCur]
    /\ todo' = [todo EXCEPT ![i] = {}]
    /\ conn' = [conn EXCEPT ![i] = "live"]
    /\ retry' = [retry EXCEPT ![i] = NoRecords]
    /\ pc' = [pc EXCEPT ![i] = "poll"]
    /\ snap' = [snap EXCEPT ![i] = NoSnap]
    /\ shutdown' = [shutdown EXCEPT ![i] = FALSE]
    /\ consumer' = [consumer EXCEPT ![i] = "open"]
    /\ attempts' = [attempts EXCEPT ![i] = FirstTry]
    /\ UNCHANGED sourceVars
    /\ UNCHANGED storeVars

\* the group coordinator reassigns partition p to instance j, which resumes
\* from the committed offset; the previous owner still holds what it polled
Rebalance(p, j) ==
    /\ pc[j] # "off"
    /\ owner[p] # j
    /\ owner' = [owner EXCEPT ![p] = j]
    /\ position' = [position EXCEPT ![j][p] = acked[p], ![owner[p]][p] = 0]
    /\ UNCHANGED <<configVars, log, acked>>
    /\ UNCHANGED <<pc, records, cur, todo, tx, conn, snap, retry>>
    /\ UNCHANGED storeVars
    /\ UNCHANGED procVars

Next ==
    \/ \E p \in Parts : Produce(p)
    \/ \E i \in Insts : Poll(i)
    \/ \E i \in Insts : Guard(i)
    \/ \E i \in Insts : Apply(i)
    \/ \E i \in Insts : DbCommit(i)
    \/ \E i \in Insts : Ack(i)
    \/ \E i \in Insts : CrashRestart(i)

NextMulti ==
    \/ \E p \in Parts : Produce(p)
    \/ \E i \in Insts : Poll(i)
    \/ \E i \in Insts : Guard(i)
    \/ \E i \in Insts : Apply(i)
    \/ \E i \in Insts : DbCommit(i)
    \/ \E i \in Insts : Ack(i)
    \/ \E p \in Parts, j \in Insts : Rebalance(p, j)

\* the engine cycle under termination signals
NextStop ==
    \/ \E p \in Parts : Produce(p)
    \/ \E i \in Insts : Poll(i)
    \/ \E i \in Insts : Guard(i)
    \/ \E i \in Insts : Apply(i)
    \/ \E i \in Insts : DbCommit(i)
    \/ \E i \in Insts : Ack(i)
    \/ \E i \in Insts : Signal(i)
    \/ \E i \in Insts : Stop(i)

\* the engine cycle with an unreliable broker and store
NextUnreliable ==
    \/ \E p \in Parts : Produce(p)
    \/ \E i \in Insts : Poll(i)
    \/ \E i \in Insts : Guard(i)
    \/ \E i \in Insts : Apply(i)
    \/ \E i \in Insts : DbCommit(i)
    \/ \E i \in Insts : Ack(i)
    \/ \E i \in Insts : ConnBreak(i)

\* the two connect loops at the head of run()
NextStart ==
    \/ \E i \in Insts : StartKafka(i)
    \/ \E i \in Insts : StartDb(i)

\* calls of the watermark store on any stored rows
NextWatermark == \E i \in Insts : CallUpdateCommittedOffset(i)

Spec == Init /\ [][Next]_vars

SpecMulti == InitMulti /\ [][NextMulti]_vars

SpecTomb == InitTomb /\ [][Next]_vars

SpecKeyless == InitKeyless /\ [][Next]_vars

SpecOdd == InitOdd /\ [][Next]_vars

SpecStop == InitStop /\ [][NextStop]_vars

\* every step of run() that can be taken is taken in the end
SpecStopFair ==
    /\ InitStop
    /\ [][NextStop]_vars
    /\ \A i \in Insts :
        WF_vars(Poll(i) \/ Guard(i) \/ Apply(i) \/ DbCommit(i) \/ Ack(i) \/ Stop(i))

SpecUnreliable == InitUnreliable /\ [][NextUnreliable]_vars

SpecStart == InitStart /\ [][NextStart]_vars

SpecWatermark == InitWatermark /\ [][NextWatermark]_vars

TypeOK ==
    /\ \A p \in Parts : acked[p] <= Len(log[p])
    /\ \A i \in Insts : pc[i] \in {"off", "start", "startdb", "poll", "guard", "apply",
                                   "commit", "ack", "stopped", "fatal", "died",
                                   "call", "called"}
    /\ \A i \in Insts : conn[i] \in {"live", "none", "broken", "closed"}
    /\ \A i \in Insts : consumer[i] \in {"none", "open", "closed"}
    /\ retry_backoff_base \in BackoffBases

\* ================================================================ claims
LastOffset(recs, p) == recs[p][2] - 1
FirstOffset(recs, p) == recs[p][1]
BatchLen(recs, p) == recs[p][2] - recs[p][1]
EventAt(p, o) == log[p][o + 1]

\* the event is a no-op by contract: no operation, or no value at all
IsNoOp(ev) == ev.op \in {"null", "novalue"}
\* the event writes its row when applied
IsWrite(ev) ==
    \/ ev.op \in {"c", "r", "u"} /\ ev.img = "full"
    \/ ev.op = "d" /\ ev.img \in {"full", "idonly"}
RowAfter(ev) == IF ev.op = "d" THEN NoRow ELSE ev.val

WmNotLowered == \A p \in DOMAIN wm : p \in DOMAIN wm' /\ wm'[p] >= wm[p]

\* C1: the committed source offsets change only in the acknowledgment step of
\* an instance whose batch is durably committed in the store (its transaction
\* is closed and the watermark of every partition of the batch has reached the
\* batch's last offset); poll, a failed store commit or a failed batch never
\* move them.
C1_AckOnlyAfterStoreCommit ==
    [][ acked' # acked =>
          \E i \in Insts :
             /\ pc[i] = "ack"
             /\ tx[i] = EmptyTx
             /\ NonEmpty(records[i]) # {}
             /\ \A p \in NonEmpty(records[i]) :
                   p \in DOMAIN wm /\ wm[p] >= LastOffset(records[i], p) ]_vars

\* a batch was committed and then acknowledged
C1_Witness ==
    \E p \in Parts : acked[p] > 0 /\ p \in DOMAIN wm /\ wm[p] = acked[p] - 1 /\ pc[1] = "poll"

C3_FailedBatchRetriedFirst ==
    [][ \A i \in Insts :
          (pc[i] = "poll" /\ pc'[i] = "guard" /\ retry[i] # NoRecords) =>
             \A p \in NonEmpty(retry[i]) :
                p \in NonEmpty(records'[i]) =>
                   FirstOffset(records'[i], p) <= FirstOffset(retry[i], p) ]_vars

\* C4: every acknowledged offset is the offset of an event that was applied in
\* a committed transaction or of a no-op event.
C4_NoSilentLoss ==
    \A p \in Parts : \A o \in 0..(acked[p] - 1) :
        <<p, o>> \in applied \/ IsNoOp(EventAt(p, o))

\* C5: with one engine instance no step lowers (or removes) a watermark row.
C5_WatermarkNeverDecreases == [][WmNotLowered]_vars

\* a batch redelivered from offset 0 has passed the guard while the watermark
\* of its partition stands at 1 or higher
C5_Witness ==
    \E p \in Parts :
        /\ pc[1] = "commit"
        /\ p \in NonEmpty(records[1])
        /\ FirstOffset(records[1], p) = 0
        /\ p \in DOMAIN wm /\ wm[p] >= 1

\* offsets of partition p whose event wrote the row and is durably applied
AppliedWrites(p) == {o \in 0..(Len(log[p]) - 1) : <<p, o>> \in applied /\ IsWrite(EventAt(p, o))}
MaxOf(S) == CHOOSE x \in S : \A y \in S : y <= x

\* the row of partition p's key holds what the highest applied event left
RowAtHighestApplied(p) ==
    AppliedWrites(p) # {} =>
        rows[KeyOf(p)] = RowAfter(EventAt(p, MaxOf(AppliedWrites(p))))

\* C6: with two instances on one store, no step lowers a watermark row and
\* every row holds what the highest-offset committed event on its key left,
\* also across a reassignment during an open batch.
C6_ConcurrentInstancesKeepOrder ==
    [][ WmNotLowered /\ \A p \in Parts : RowAtHighestApplied(p)' ]_vars

\* C7: a delivery of an event that was already applied (durably, or earlier
\* in the open transaction) is skipped by the guard: process_event and
\* update_committed_offset are not reached, and rows, watermark and the open
\* transaction are as before.
C7_SecondDeliverySkipped ==
    [][ \A i \in Insts :
          (/\ pc[i] = "guard"
           /\ pc'[i] \in {"guard", "apply", "commit"}
           /\ cur[i] \in applied \cup tx[i].applied) =>
             /\ pc'[i] # "apply"
             /\ tx'[i] = tx[i]
             /\ rows' = rows
             /\ WmNotLowered /\ wm' = wm ]_vars

\* the first event of the batch had been applied durably before the batch
\* was polled, and the loops have passed it
C7_Witness ==
    \E p \in NonEmpty(records[1]) :
        /\ pc[1] = "commit"
        /\ <<p, FirstOffset(records[1], p)>> \in applied
        /\ IsWrite(EventAt(p, FirstOffset(records[1], p)))

\* every offset of the batch was at or below the watermark that was durable
\* when the batch was polled
Redelivered(i) ==
    /\ NonEmpty(records[i]) # {}
    /\ \A p \in NonEmpty(records[i]) :
          p \in DOMAIN snap[i].wm /\ LastOffset(records[i], p) <= snap[i].wm[p]

\* C8: a batch that is redelivered after its store commit (no acknowledgment
\* reached the source) is absorbed: no event of it reaches process_event, the
\* transaction stays empty, and rows and watermarks stay as they were.
C8_RedeliveryAbsorbed ==
    \A i \in Insts :
        (pc[i] \in {"guard", "apply", "commit", "ack"} /\ Redelivered(i)) =>
            /\ pc[i] # "apply"
            /\ tx[i] = EmptyTx
            /\ rows = snap[i].rows
            /\ wm = snap[i].wm

\* a committed but unacknowledged batch of two events came again and went
\* through the loops
C8_Witness ==
    \E p \in Parts :
        /\ pc[1] = "commit"
        /\ Redelivered(1)
        /\ BatchLen(records[1], p) >= 2
        /\ acked[p] = FirstOffset(records[1], p)

\* C9: the row of a key holds what the highest applied event of its
\* partition left: an event at or below the committed watermark that comes
\* again does not bring the row back to its values.
C9_RowNotRegressed ==
    \A p \in Parts :
        /\ RowAtHighestApplied(p)
        /\ \A o \in AppliedWrites(p) : p \in DOMAIN wm /\ o <= wm[p]

\* offsets 0 (create, value a) and 1 (update, value b) are applied, offset 0
\* came again alone and went through the loops; the row is at b
C9_Witness ==
    /\ {0, 1} \subseteq AppliedWrites(0)
    /\ EventAt(0, 0).val = "a" /\ EventAt(0, 0).op = "c"
    /\ EventAt(0, 1).val = "b" /\ EventAt(0, 1).op = "u"
    /\ wm[0] = 1
    /\ records[1][0] = <<0, 1>>
    /\ pc[1] = "commit"
    /\ rows[KeyOf(0)] = "b"

\* the step applies a tombstone: the message at the cursor has passed the
\* guard, it has no operation or no value, and the instance moves on
TombstoneStep(i) ==
    /\ pc[i] = "apply"
    /\ IsNoOp(EventAt(cur[i][1], cur[i][2]))
    /\ pc'[i] # "apply"
    /\ ~(pc'[i] = "poll" /\ retry'[i] = NoRecords)

\* C10 as stated: a tombstone that passes the guard writes no row, leaves the
\* partition's committed_offset alone and raises no error.
C10_TombstoneNoWatermarkChange ==
    [][ \A i \in Insts :
          TombstoneStep(i) =>
             /\ retry'[i] = NoRecords
             /\ tx'[i].rows = tx[i].rows
             /\ tx'[i].wm = tx[i].wm ]_vars

\* C10 amended: a tombstone that passes the guard writes no row and raises no
\* error; the partition's committed_offset is set to the tombstone's offset in
\* the open transaction.
C10_TombstoneAdvancesWatermark ==
    [][ \A i \in Insts :
          TombstoneStep(i) =>
             /\ retry'[i] = NoRecords
             /\ tx'[i].rows = tx[i].rows
             /\ tx'[i].wm = Put(tx[i].wm, cur[i][1], cur[i][2])
             /\ ViewWm(i)'[cur[i][1]] = cur[i][2] ]_vars

\* a tombstone was applied after a create in one committed batch: the row
\* stands, the watermark is at the tombstone's offset
C10_Witness ==
    /\ Len(log[0]) >= 2
    /\ EventAt(0, 0).op = "c"
    /\ IsNoOp(EventAt(0, 1))
    /\ {<<0, 0>>, <<0, 1>>} \subseteq applied
    /\ rows[KeyOf(0)] = "a"
    /\ 0 \in DOMAIN wm /\ wm[0] = 1

\* ------------------------------------------------------------ C11 .. C20
\* the step is the engine's own step out of "apply" (not a restart)
ApplyStep(i) ==
    /\ pc[i] = "apply"
    /\ pc'[i] # "apply"
    /\ ~(pc'[i] = "poll" /\ retry'[i] = NoRecords)

KeylessDelete(ev) == ev.op = "d" /\ ev.img = "nokey"

\* C11: a delete whose before image is not empty but has no id is an error of
\* the batch: the step that applies it rolls the transaction back (no row is
\* deleted, committed_offset is not set to its offset) and the cycle ends
\* without store commit and without acknowledgment.
C11_KeylessDeleteAbortsBatch ==
    [][ \A i \in Insts :
          (ApplyStep(i) /\ KeylessDelete(EventAt(cur[i][1], cur[i][2]))) =>
             /\ pc'[i] = "poll"
             /\ retry'[i] = records[i]
             /\ tx'[i] = EmptyTx ]_vars

\* one application of an event to a row, as the contract words it: upsert of
\* after for c/r/u, removal for d; an after image with the key alone leaves
\* the columns of an existing row and inserts a row without columns otherwise
ApplyOnce(row, ev) ==
    IF ev.op \in {"c", "r", "u"} /\ ev.img = "full" THEN ev.val
    ELSE IF ev.op \in {"c", "r", "u"} /\ ev.img = "idonly"
         THEN (IF row = NoRow THEN "nocolumns" ELSE row)
    ELSE IF ev.op = "d" /\ ev.img \in {"full", "idonly"} THEN NoRow
    ELSE row

\* the row of partition p's key after the events at the offsets in S below n
\* were applied once each, in increasing offset order, to an empty table
RECURSIVE ReplayBelow(_, _, _)
ReplayBelow(p, S, n) ==
    IF n = 0 THEN NoRow
    ELSE LET before == ReplayBelow(p, S, n - 1)
         IN  IF (n - 1) \in S THEN ApplyOnce(before, EventAt(p, n - 1)) ELSE before

OffsetsIn(A, p) == {o \in 0..(Len(log[p]) - 1) : <<p, o>> \in A}

InCycle == {"guard", "apply", "commit", "ack"}

\* the open transaction of i becomes durable as a whole
CommittedWhole(i) ==
    /\ rows' = Overlay(rows, tx[i].rows)
    /\ wm' = Overlay(wm, tx[i].wm)
    /\ applied' = applied \cup tx[i].applied
    /\ tx'[i] = EmptyTx

\* the open transaction of i is given up and nothing of it is durable
RolledBack(i) ==
    /\ rows' = rows /\ wm' = wm /\ applied' = applied
    /\ tx'[i] = EmptyTx
    /\ retry'[i] = records[i]

\* C13: run() ends only at the head of the loop, with the flag set and no
\* batch and no transaction open; while the flag is set and a batch is in
\* work, the cycle goes on as without the flag: the store commit makes the
\* whole transaction durable and is followed by the acknowledgment attempt,
\* or the whole transaction is rolled back; the durable state changes in no
\* other step.
C13_CooperativeCancellation ==
    [][ \A i \in Insts :
          /\ (pc'[i] = "stopped" /\ pc[i] # "stopped") =>
                /\ pc[i] = "poll" /\ shutdown[i]
                /\ tx[i] = EmptyTx /\ records[i] = NoRecords
                /\ rows' = rows /\ wm' = wm /\ applied' = applied
          /\ (shutdown[i] /\ pc[i] \in {"guard", "apply"} /\ pc'[i] \notin {"guard", "apply"}) =>
                \/ pc'[i] = "commit" /\ rows' = rows /\ wm' = wm
                \/ pc'[i] = "poll" /\ RolledBack(i)
          /\ (shutdown[i] /\ pc[i] = "commit" /\ pc'[i] # "commit") =>
                \/ pc'[i] = "ack" /\ CommittedWhole(i)
                \/ pc'[i] = "poll" /\ RolledBack(i)
          /\ (shutdown[i] /\ pc[i] = "ack" /\ pc'[i] # "ack") =>
                /\ pc'[i] = "poll" /\ records'[i] = NoRecords
                /\ rows' = rows /\ wm' = wm ]_vars

\* the flag was set while a batch was in work; the batch went on to its store
\* commit and stands before the acknowledgment
C13_Witness ==
    /\ shutdown[1]
    /\ pc[1] = "ack"
    /\ tx[1] = EmptyTx
    /\ \E p \in NonEmpty(records[1]) :
          /\ BatchLen(records[1], p) >= 2
          /\ \A o \in FirstOffset(records[1], p)..LastOffset(records[1], p) : <<p, o>> \in applied

HandleOf(i, what) == IF what = "kafka" THEN consumer[i] ELSE conn[i]

\* C15: a connect loop (connect_target_db, create_kafka_consumer) makes at
\* most MAX_RETRIES attempts; it ends at the first attempt the server
\* accepts, with a live handle; when the server accepts none of the
\* MAX_RETRIES attempts the process ends with a non-zero status and the
\* engine holds no handle from the loop.
C15_BoundedRetryThenFatal ==
    \A i \in Insts :
        LET a == attempts[i]
        IN  a.what \in {"db", "kafka"} =>
              /\ a.made <= MAX_RETRIES
              /\ a.ok <=> (\E n \in 1..MAX_RETRIES : n \in a.avail)
              /\ a.ok =>
                    /\ a.made \in a.avail
                    /\ \A n \in 1..(a.made - 1) : n \notin a.avail
                    /\ HandleOf(i, a.what) \in {"open", "live"}
                    /\ pc[i] # "fatal"
              /\ ~a.ok =>
                    /\ a.made = MAX_RETRIES
                    /\ pc[i] = "fatal"
                    /\ HandleOf(i, a.what) = "none"

\* the store refused four attempts and accepted the fifth
C15_Witness ==
    /\ attempts[1].what = "db"
    /\ attempts[1].ok
    /\ attempts[1].made = MAX_RETRIES
    /\ Len(attempts[1].slept) = MAX_RETRIES - 1
    /\ conn[1] = "live"
    /\ pc[1] = "poll"

C17_OnlyRetryExhaustionIsFatal ==
    \A i \in Insts :
        /\ pc[i] # "died"
        /\ pc[i] = "fatal" => (~attempts[i].ok /\ attempts[i].made = MAX_RETRIES)

\* C18: after update_committed_offset(p, o) the stored committed_offset of p,
\* as the transaction sees it, is the larger of o and the value w stored
\* before (o when there was no row): a call with o < w leaves w.
C18_UpdateOnlyIncreases ==
    \A i \in Insts :
        pc[i] = "called" =>
           LET p == cur[i][1]
               o == cur[i][2]
           IN  ViewWm(i)[p] = (IF p \in DOMAIN wm /\ wm[p] > o THEN wm[p] ELSE o)

\* the step is the engine's own step from the guard of the message at the cursor
GuardStep(i) ==
    /\ pc[i] = "guard"
    /\ pc'[i] \in {"guard", "apply", "commit"}
    /\ (pc'[i] = "guard" => cur'[i] # cur[i])

\* a watermark row of p is visible to the transaction of i and is at or above o
RowAtOrAbove(i, p, o) == p \in DOMAIN ViewWm(i) /\ ViewWm(i)[p] >= o

\* C19: at the guard of a message (p, o), is_offset_processed is true exactly
\* when the transaction sees a watermark row of p (durable, or written earlier
\* in the batch) whose committed_offset is >= o; without a row it is false,
\* also for offset 0; and the loop passes the message without process_event
\* and without a write exactly when the guard is true.
C19_GuardExactlyAtOrBelowWatermark ==
    [][ \A i \in Insts :
          GuardStep(i) =>
             LET p == cur[i][1]
                 o == cur[i][2]
             IN  /\ is_offset_processed(ViewWm(i), p, o) <=> RowAtOrAbove(i, p, o)
                 /\ p \notin DOMAIN ViewWm(i) => ~is_offset_processed(ViewWm(i), p, 0)
                 /\ pc'[i] # "apply" <=> RowAtOrAbove(i, p, o)
                 /\ tx'[i] = tx[i] ]_vars

\* a batch of the one message whose offset equals the stored committed_offset
\* has passed the guard without a write, while another partition has no row
C19_Witness ==
    \E p \in Parts :
        /\ pc[1] = "commit"
        /\ NonEmpty(records[1]) = {p}
        /\ BatchLen(records[1], p) = 1
        /\ p \in DOMAIN wm /\ wm[p] = FirstOffset(records[1], p)
        /\ tx[1] = EmptyTx
        /\ DOMAIN wm = {p}

\* in the set A of applied messages and the watermark rows w that go with it,
\* every applied offset is at or below its partition's committed_offset and
\* every committed_offset is the offset of an applied message
Colocated(A, w) ==
    /\ \A m \in A : m[1] \in DOMAIN w /\ m[2] <= w[m[1]]
    /\ \A p \in DOMAIN w : <<p, w[p]>> \in A

\* C20: the watermark update to an event's offset and the event's application
\* are written in one transaction and become durable in one commit: rows,
\* watermark rows and the set of applied events change durably only in a
\* store commit that takes the whole open transaction; in every durable
\* state, and in every open transaction, an applied event's offset is at or
\* below committed_offset of its partition, and committed_offset is the
\* offset of an applied event.
C20_WatermarkWithMutation ==
    [][ /\ (rows' # rows \/ wm' # wm \/ applied' # applied) =>
              \E i \in Insts : pc[i] = "commit" /\ pc'[i] = "ack" /\ CommittedWhole(i)
        /\ Colocated(applied', wm')
        /\ \A i \in Insts : Colocated(tx'[i].applied, tx'[i].wm) ]_vars

\* one commit has made durable, for both partitions, the row of a create and
\* the watermark at the create's offset
C20_Witness ==
    /\ pc[1] = "ack"
    /\ NonEmpty(records[1]) = Parts
    /\ \A p \in Parts :
          /\ FirstOffset(records[1], p) = 0
          /\ p \in DOMAIN wm /\ wm[p] = LastOffset(records[1], p)
          /\ <<p, wm[p]>> \in applied
          /\ EventAt(p, wm[p]).op = "c"
          /\ rows[KeyOf(p)] = "a"

\* ------------------------------------------------------------ C21 .. C30
UnknownOp(ev) == ev.op \notin {"c", "r", "u", "d", "null", "novalue"}

\* C21: an event with an unrecognised operation code that passes the guard
\* writes nothing and raises nothing: the transaction's rows are as before,
\* the batch is not rolled back and the loops go on to the next message or to
\* the store commit, which takes the other events of the batch with it.
C21_UnknownOpSkipped ==
    [][ \A i \in Insts :
          (ApplyStep(i) /\ UnknownOp(EventAt(cur[i][1], cur[i][2]))) =>
             /\ pc'[i] \in {"guard", "commit"}
             /\ retry'[i] = NoRecords
             /\ records'[i] = records[i]
             /\ tx'[i].rows = tx[i].rows
             /\ tx[i].applied \subseteq tx'[i].applied ]_vars

\* a batch of a create and an event with an unknown code after it was
\* committed and acknowledged: the row of the create stands
C21_Witness ==
    /\ Len(log[0]) >= 2
    /\ EventAt(0, 0).op = "c"
    /\ UnknownOp(EventAt(0, 1))
    /\ {<<0, 0>>, <<0, 1>>} \subseteq applied
    /\ rows[KeyOf(0)] = "a"
    /\ acked[0] = 2
    /\ pc[1] = "poll"

EmptyAfter(ev) == ev.op \in {"c", "r", "u"} /\ ev.img = "empty"

\* C22: a create, read or update event without after image that passes the
\* guard executes no statement and raises nothing: the transaction's rows are
\* as before, the batch is not rolled back and goes on with the next message
\* or with the store commit.
C22_EmptyAfterSkipped ==
    [][ \A i \in Insts :
          (ApplyStep(i) /\ EmptyAfter(EventAt(cur[i][1], cur[i][2]))) =>
             /\ pc'[i] \in {"guard", "commit"}
             /\ retry'[i] = NoRecords
             /\ records'[i] = records[i]
             /\ tx'[i].rows = tx[i].rows
             /\ ViewRows(i) = Overlay(rows, tx'[i].rows) ]_vars

\* an update without after image came after the create of its row; both were
\* committed and acknowledged and the row is the one the create wrote
C22_Witness ==
    /\ Len(log[0]) >= 2
    /\ EventAt(0, 0).op = "c" /\ EventAt(0, 0).img = "full"
    /\ EmptyAfter(EventAt(0, 1))
    /\ {<<0, 0>>, <<0, 1>>} \subseteq applied
    /\ rows[KeyOf(0)] = EventAt(0, 0).val
    /\ acked[0] >= 2

\* nothing is left for instance i to receive
SourceDrained(i) == \A p \in Parts : owner[p] = i => position[i][p] = Len(log[p])

\* C23: a poll cycle that receives nothing is a no-op. While an instance stays
\* in its poll loop no step touches the store, the acknowledged offsets, its
\* transaction, its read position, its consumer handle or the record of its
\* connect attempts, and its connection handle is replaced by no step (it can
\* only be broken from outside); the instance is back at the loop condition.
C23_EmptyPollIsNoOp ==
    [][ \A i \in Insts :
          (pc[i] = "poll" /\ pc'[i] = "poll") =>
             /\ conn'[i] \in {conn[i], "broken"}
             /\ tx'[i] = tx[i] /\ tx[i] = EmptyTx
             /\ position'[i] = position[i]
             /\ records'[i] = records[i] /\ retry'[i] = retry[i]
             /\ consumer'[i] = consumer[i] /\ consumer[i] = "open"
             /\ attempts'[i] = attempts[i]
             /\ shutdown'[i] = shutdown[i]
             /\ acked' = acked
             /\ <<rows, wm, applied>>' = <<rows, wm, applied>> ]_vars

\* every poll of the instance comes back empty while its store handle is
\* missing or stale: a health check in that cycle would replace the handle
C23_Witness ==
    /\ pc[1] = "poll"
    /\ ~shutdown[1]
    /\ SourceDrained(1)
    /\ \E p \in Parts : Len(log[p]) > 0
    /\ conn[1] \in {"none", "broken"}

\* the connect loops an instance has run and recorded
Loops(i) == IF attempts[i].what \in {"kafka", "db", "stale"} /\ attempts[i].made > 0
            THEN {attempts[i]} ELSE {}

\* C24 as stated: the wait after failed attempt number n is the configured
\* base times 2 to the power n, in the source's and in the store's connect loop.
C24_WaitIsBaseTimesTwoToAttempt ==
    \A i \in Insts : \A l \in Loops(i) : \A n \in DOMAIN l.slept :
        l.slept[n] = retry_backoff_base * Pow(2, n)

\* C24, amended: the wait after failed attempt number n is the configured base
\* raised to the power n, for every base and every n in 1..MAX_RETRIES, in both
\* connect loops; every failed attempt is followed by its wait, the last one
\* before the fatal exit included.
C24_WaitIsBaseToTheAttempt ==
    \A i \in Insts : \A l \in Loops(i) :
        /\ Len(l.slept) = (IF l.ok THEN l.made - 1 ELSE MAX_RETRIES)
        /\ \A n \in DOMAIN l.slept : l.slept[n] = Pow(retry_backoff_base, n)

\* with base 3 the store refused every attempt: the loop slept 3, 9, 27, 81, 243
C24_Witness ==
    /\ retry_backoff_base = 3
    /\ attempts[1].what = "db"
    /\ ~attempts[1].ok
    /\ Len(attempts[1].slept) = MAX_RETRIES
    /\ attempts[1].slept[2] = 9
    /\ attempts[1].slept[MAX_RETRIES] = Pow(3, MAX_RETRIES)

\* the offsets of partition p in the batch of instance i that the guard lets through
NotSkipped(i, p) ==
    {o \in FirstOffset(records[i], p)..LastOffset(records[i], p) :
        ~(p \in DOMAIN snap[i].wm /\ o <= snap[i].wm[p])}

\* row after the events of p at the offsets of S below n were applied to it,
\* once each and in increasing offset order
RECURSIVE FoldBatch(_, _, _, _)
FoldBatch(row, p, S, n) ==
    IF n = 0 THEN row
    ELSE LET before == FoldBatch(row, p, S, n - 1)
         IN  IF (n - 1) \in S THEN ApplyOnce(before, EventAt(p, n - 1)) ELSE before

C26_WatermarkCoversOnlyApplied ==
    \A p \in DOMAIN wm : \A o \in 0..(Len(log[p]) - 1) :
        o <= wm[p] => (<<p, o>> \in applied \/ IsNoOp(EventAt(p, o)))

\* C27: when the store commit of a batch succeeds, the durable
\* committed_offset of every partition that had an event the guard let through
\* is the highest offset of that partition in the batch, whatever the events
\* were: an unknown operation, a missing after image, a key-less delete and a
\* tombstone advance it as a write does.
C27_WatermarkAtBatchEnd ==
    [][ \A i \in Insts :
          (pc[i] = "commit" /\ pc'[i] = "ack") =>
             \A p \in NonEmpty(records[i]) :
                NotSkipped(i, p) # {} =>
                   /\ p \in DOMAIN wm'
                   /\ wm'[p] = LastOffset(records[i], p) ]_vars

\* a committed batch ended with a key-less delete in partition 0 and held a
\* tombstone alone in partition 1: both watermarks stand at these offsets
C27_Witness ==
    /\ pc[1] = "ack"
    /\ NonEmpty(records[1]) = Parts
    /\ BatchLen(records[1], 0) = 2
    /\ EventAt(0, LastOffset(records[1], 0)).op = "d"
    /\ EventAt(0, LastOffset(records[1], 0)).img = "nokey"
    /\ IsNoOp(EventAt(1, LastOffset(records[1], 1)))
    /\ \A p \in Parts : p \in DOMAIN wm /\ wm[p] = LastOffset(records[1], p)
    /\ \A p \in Parts : NotSkipped(1, p) # {}

\* the process of instance i was killed and started again in this step: its
\* read position went back to the acknowledged offsets
Restarted(i) == position'[i] # position[i]

\* C28: a non-empty batch of which the guard skips every event is still
\* committed and acknowledged in its cycle: the loops go from message to
\* message and then to the store commit, never back to the poll; the store
\* commit, unless it raises, leaves the store as it was and is followed by
\* the acknowledgment; the acknowledgment, unless it raises, moves the
\* acknowledged offset of every partition of the batch past its last event.
C28_SkippedBatchCommittedAndAcked ==
    [][ \A i \in Insts :
          (Redelivered(i) /\ ~Restarted(i) /\ <<pc[i], cur[i]>>' # <<pc[i], cur[i]>>) =>
             /\ pc[i] = "guard" => pc'[i] \in {"guard", "commit"}
             /\ pc[i] = "commit" =>
                   \/ pc'[i] = "ack" /\ <<rows, wm, applied>>' = <<rows, wm, applied>>
                   \/ pc'[i] = "poll" /\ retry'[i] = records[i]
             /\ (pc[i] = "ack" /\ pc'[i] = "poll") =>
                   \/ \A p \in NonEmpty(records[i]) :
                         /\ acked[p] <= LastOffset(records[i], p)
                         /\ acked'[p] = LastOffset(records[i], p) + 1
                   \/ conn'[i] = "none" /\ acked' = acked ]_vars

\* a batch that was committed before the process was killed came again, was
\* skipped event by event and committed; its acknowledgment is next
C28_Witness ==
    /\ pc[1] = "ack"
    /\ Redelivered(1)
    /\ tx[1] = EmptyTx
    /\ \E p \in NonEmpty(records[1]) :
          /\ BatchLen(records[1], p) >= 2
          /\ acked[p] = FirstOffset(records[1], p)
          /\ IsWrite(EventAt(p, FirstOffset(records[1], p)))

Open(h) == h \in {"live", "broken"}
\* conn = None while the connection is open
DropsOpenHandle(i) == Open(conn[i]) /\ conn'[i] = "none"

\* C29: the engine holds at most one open store connection and closes what it
\* acquired: no step drops a store handle that is still open (a handle is
\* replaced only after it was closed), and when run() is left, by a graceful
\* shutdown or by the fatal exit of a connect loop, neither the source handle
\* nor the store handle is left open.
C29_HandlesClosed ==
    [][ \A i \in Insts :
          /\ ~DropsOpenHandle(i)
          /\ (pc'[i] \in {"stopped", "fatal"} /\ pc[i] # pc'[i]) =>
                 /\ consumer'[i] # "open"
                 /\ ~Open(conn'[i]) ]_vars

IdOnlyUpsert(ev) == ev.op \in {"c", "r", "u"} /\ ev.img = "idonly"

\* C30: a create, read or update event whose after image holds the column id
\* alone is applied without error on a live connection: the batch is not
\* rolled back and goes on to the next message or to the store commit; the
\* row is inserted when the transaction saw none and is left as it was
\* otherwise.
C30_IdOnlyUpsertApplied ==
    [][ \A i \in Insts :
          (ApplyStep(i) /\ conn[i] = "live"
                        /\ IdOnlyUpsert(EventAt(cur[i][1], cur[i][2]))) =>
             LET k == EventAt(cur[i][1], cur[i][2]).id
             IN  /\ pc'[i] \in {"guard", "commit"}
                 /\ retry'[i] = NoRecords
                 /\ <<cur[i][1], cur[i][2]>> \in tx'[i].applied
                 /\ IF ViewRows(i)[k] = NoRow
                    THEN Overlay(rows, tx'[i].rows)[k] # NoRow
                    ELSE Overlay(rows, tx'[i].rows)[k] = ViewRows(i)[k] ]_vars

====
